---- MODULE Spec2Model ----
(***************************************************************************)
(* Model of the DHCP-serving core of boots:                                *)
(*   src/cmd/boots/dhcp.go  lease table, address arithmetic, the packet    *)
(*                          handler run by the worker pool                 *)
(*   src/job/fetch.go       the single-flight wrappers around the          *)
(*                          inventory client                               *)
(*                                                                         *)
(* Specifications:                                                         *)
(*   SpecTable  the lease table driven operation by operation              *)
(*   Spec       packets handled concurrently by the worker pool            *)
(*   SpecFetch  concurrent callers of the single-flight wrappers           *)
(***************************************************************************)
EXTENDS Integers, Sequences, FiniteSets, TLC

VARIABLES
    start,          \* DHCPServer.start: first address of the pool
    leaseRange,     \* DHCPServer.leaseRange
    leases,         \* DHCPServer.leases: map[int]lease
    op,             \* SpecTable: the last lease-table operation and the table before it
    enableDefault,  \* os.Getenv("ENABLE_DEFAULT_WORKFLOWS") == "1"
    pc,             \* per packet: where its handler (or its response goroutine) stands
    pkt,            \* per packet: the fields of the request the handler reads
    free,           \* per packet: the handler's local variable free
    trace,          \* per packet: the calls its handler has made, in order
    metrics,        \* the prometheus counters and gauges the handler touches
    fatal,          \* the Go runtime has thrown on a concurrent map access
    sf,             \* servers: the keys of the single-flight group with a call in flight
    flights,        \* every call the group has started: key, operation, outcome
    cpc,            \* per caller of a fetch wrapper: where it stands
    ccall,          \* per caller: the wrapper it called and its key
    cflight,        \* per caller: the call of the group it leads or waits for
    cret,           \* per caller: what the wrapper returned
    spc,            \* ServeDHCP: where the startup supervisor stands
    attempts,       \* ServeDHCP: calls of dhcp4.ListenAndServe made by retry.Do
    outcomes,       \* ServeDHCP: how each of those calls went
    alwaysFails,    \* the listen address can never be bound
    arith,          \* SpecArith: the last IPAdd / IPRange computation
    option          \* SpecOption: the last getCircuitID call

serverVars == <<start, leaseRange, leases>>
handlerVars == <<enableDefault, pc, pkt, free, trace, metrics, fatal>>
fetchVars == <<sf, flights, cpc, ccall, cflight, cret>>
superVars == <<spc, attempts, outcomes, alwaysFails>>
pureVars == <<arith, option>>
vars ==
    <<start, leaseRange, leases, op, enableDefault, pc, pkt, free, trace, metrics, fatal,
      sf, flights, cpc, ccall, cflight, cret, spc, attempts, outcomes, alwaysFails,
      arith, option>>

\* what the lease-table operations, the handler and the fetch wrappers leave alone
offTable == <<handlerVars, fetchVars, superVars, pureVars>>
offHandler == <<op, fetchVars, superVars, pureVars>>
offFetch == <<serverVars, op, handlerVars, superVars, pureVars>>
offSuper == <<serverVars, op, handlerVars, fetchVars, pureVars>>
offPure == <<serverVars, op, handlerVars, fetchVars, superVars>>

----------------------------------------------------------------------------
(* Bounds *)

MaxLeaseRange == 3
NumMacs == 3
\* callers of the fetch wrappers in one behaviour of SpecFetch
NumCallers == 3
\* packets received in one behaviour of Spec
NumPackets == 2
\* largest pool size in Spec
MaxPool == 2
\* workerpool.New(poolSize)
PoolSize == 2
\* largest offset added to an address in SpecArith
MaxOffset == 260
\* longest relay-agent-information option in SpecOption
MaxOptLen == 3

----------------------------------------------------------------------------
(* Values *)

\* net.HardwareAddr: six bytes
MACs == {<<2, 0, 0, 0, 171, n>> : n \in 1..NumMacs}

NoMac == <<>>

\* the value freeLease returns when no offset is free
None == -1

\* START_IP values: one in the middle of a /24, one whose pool crosses an octet boundary
Starts == {<<10, 0, 0, 1>>, <<10, 0, 0, 254>>}

Hex == <<"0", "1", "2", "3", "4", "5", "6", "7", "8", "9", "a", "b", "c", "d", "e", "f">>

ByteHex(b) == Hex[(b \div 16) + 1] \o Hex[(b % 16) + 1]

\* net.HardwareAddr.String(): lower-case hex bytes joined by colons
MacString(mac) ==
    ByteHex(mac[1]) \o ":" \o ByteHex(mac[2]) \o ":" \o ByteHex(mac[3]) \o ":" \o
    ByteHex(mac[4]) \o ":" \o ByteHex(mac[5]) \o ":" \o ByteHex(mac[6])

----------------------------------------------------------------------------
(* Address arithmetic *)

\* binary.BigEndian.Uint32(ip.To4())
Uint32(ip) == ip[1] * 16777216 + ip[2] * 65536 + ip[3] * 256 + ip[4]

\* IPAdd that adds to the last octet only, without carrying
IPAddNoCarry(ip, add) == <<ip[1], ip[2], ip[3], (ip[4] + add) % 256>>

\* IPAdd: the sum is cut into its four low bytes, so it wraps modulo 2^32
IPAdd(ip, add) ==
    LET v == Uint32(ip) + add
    IN  <<(v \div 16777216) % 256, (v \div 65536) % 256, (v \div 256) % 256, v % 256>>

\* IPRange: how many addresses from start to stop, both included
IPRange(from, stop) == Uint32(stop) - Uint32(from) + 1

----------------------------------------------------------------------------
(* Lease table *)

RECURSIVE Probe(_, _, _)
\* the inner loop of freeLease: the first i in [i, hi) that is no key of ls
Probe(ls, i, hi) ==
    IF i >= hi THEN None
    ELSE IF i \notin DOMAIN ls THEN i
    ELSE Probe(ls, i + 1, hi)

\* freeLease whose first pass runs to leaseRange inclusive
freeLeaseInclusive(ls, range, b) ==
    LET first == Probe(ls, b, range + 1)
    IN  IF first # None THEN first ELSE Probe(ls, 0, b)

\* freeLease without the second pass over [0, b)
freeLeaseNoWrap(ls, range, b) == Probe(ls, b, range)

\* freeLease with b the value rand.Intn(leaseRange) returned
freeLease(ls, range, b) ==
    LET first == Probe(ls, b, range)
    IN  IF first # None THEN first ELSE Probe(ls, 0, b)

\* s.leases[n] = lease{nic: nic}
MapPut(ls, n, nic) ==
    [k \in DOMAIN ls \cup {n} |-> IF k = n THEN [nic |-> nic] ELSE ls[k]]

\* delete(server.leases, n)
MapDelete(ls, n) == [k \in DOMAIN ls \ {n} |-> ls[k]]

\* addLease that writes without looking at the present entry
addLeaseOverwrite(ls, from, range, mac, reqIP) ==
    LET leaseNum == IPRange(from, reqIP) - 1
    IN  IF leaseNum >= 0 /\ leaseNum < range
        THEN MapPut(ls, leaseNum, MacString(mac))
        ELSE ls

\* addLease that checks only the lower end of the pool
addLeaseUnbounded(ls, from, range, mac, reqIP) ==
    LET leaseNum == IPRange(from, reqIP) - 1
    IN  IF leaseNum >= 0
        THEN IF leaseNum \notin DOMAIN ls \/ ls[leaseNum].nic = MacString(mac)
             THEN MapPut(ls, leaseNum, MacString(mac))
             ELSE ls
        ELSE ls

\* addLease: the table after s.addLease(mac, reqIP)
addLease(ls, from, range, mac, reqIP) ==
    LET leaseNum == IPRange(from, reqIP) - 1
    IN  IF leaseNum >= 0 /\ leaseNum < range
        THEN IF leaseNum \notin DOMAIN ls \/ ls[leaseNum].nic = MacString(mac)
             THEN MapPut(ls, leaseNum, MacString(mac))
             ELSE ls
        ELSE ls

\* releaseLease: the tables s.releaseLease(mac) can leave. The loop ranges over
\* a Go map, whose iteration order is unspecified, and stops at the first match.
releaseLease(ls, mac) ==
    LET hits == {i \in DOMAIN ls : ls[i].nic = MacString(mac)}
    IN  IF hits = {} THEN {ls} ELSE {MapDelete(ls, i) : i \in hits}

EmptyTable == [k \in {} |-> [nic |-> ""]]

----------------------------------------------------------------------------
(* SpecTable: the lease table, one operation at a time *)

\* addresses handed to addLease: the pool, and addresses on both sides of it
ReqIPs == {IPAdd(start, k) : k \in (0 - 2)..(MaxLeaseRange + 1)}

NoOp == [name |-> "none", mac |-> NoMac, ip |-> <<>>, ret |-> None, pre |-> EmptyTable]

InitServer ==
    /\ start \in Starts
    /\ leaseRange \in 1..MaxLeaseRange
    /\ leases = EmptyTable

Handlers == 1..NumPackets

NoPacket == [mac |-> NoMac, type |-> "", gi |-> <<>>]

ZeroMetrics == [recv |-> 0, send |-> 0, jobsTotal |-> 0, inProgress |-> 0, observed |-> 0]

\* no packet has been received
HandlersIdle ==
    /\ pc = [h \in Handlers |-> "idle"]
    /\ pkt = [h \in Handlers |-> NoPacket]
    /\ free = [h \in Handlers |-> None]
    /\ trace = [h \in Handlers |-> <<>>]
    /\ metrics = ZeroMetrics
    /\ fatal = FALSE

Callers == 1..NumCallers

NoCall == [fn |-> "", key |-> "", live |-> FALSE, stale |-> {}]

NoRet == [val |-> 0, err |-> 0]

\* no fetch wrapper has been called
FetchIdle ==
    /\ sf = [k \in {} |-> 0]
    /\ flights = <<>>
    /\ cpc = [c \in Callers |-> "idle"]
    /\ ccall = [c \in Callers |-> NoCall]
    /\ cflight = [c \in Callers |-> 0]
    /\ cret = [c \in Callers |-> NoRet]

\* the supervisor's first call of dhcp4.ListenAndServe bound the socket and serves
SupervisorServing ==
    /\ spc = "serving"
    /\ attempts = 1
    /\ outcomes = <<"serve">>
    /\ alwaysFails = FALSE

NoArith == [fn |-> "none", base |-> <<>>, n |-> 0, sum |-> <<>>, count |-> 0]

NoOption == [called |-> FALSE, present |-> FALSE, bytes |-> <<>>, result |-> "none",
             circuitID |-> <<>>]

\* neither IPAdd nor getCircuitID has been called
PureIdle ==
    /\ arith = NoArith
    /\ option = NoOption

InitTable ==
    /\ InitServer
    /\ op = NoOp
    /\ enableDefault = FALSE
    /\ HandlersIdle
    /\ FetchIdle
    /\ SupervisorServing
    /\ PureIdle

TableFreeLease ==
    \E b \in 0..(leaseRange - 1) :
        /\ op' = [name |-> "freeLease", mac |-> NoMac, ip |-> <<>>,
                  ret |-> freeLease(leases, leaseRange, b), pre |-> leases]
        /\ UNCHANGED <<serverVars, offTable>>

TableAddLease ==
    \E mac \in MACs, ip \in ReqIPs :
        /\ leases' = addLease(leases, start, leaseRange, mac, ip)
        /\ op' = [name |-> "addLease", mac |-> mac, ip |-> ip, ret |-> None, pre |-> leases]
        /\ UNCHANGED <<start, leaseRange, offTable>>

TableReleaseLease ==
    \E mac \in MACs :
        /\ leases' \in releaseLease(leases, mac)
        /\ op' = [name |-> "releaseLease", mac |-> mac, ip |-> <<>>, ret |-> None,
                  pre |-> leases]
        /\ UNCHANGED <<start, leaseRange, offTable>>

NextTable ==
    \/ TableFreeLease
    \/ TableAddLease
    \/ TableReleaseLease

SpecTable == InitTable /\ [][NextTable]_vars

----------------------------------------------------------------------------
(* Properties of the lease table *)

Offsets == 0..(leaseRange - 1)

\* the offset addLease computes for the address of the last operation
OpOffset == IPRange(start, op.ip) - 1

Clients(ls) == {ls[k].nic : k \in DOMAIN ls}

\* C1: freeLease returns either the none sentinel (-1) or an offset in
\* [0, leaseRange) that is no key of the lease table.
C1_FreeLeaseInRangeAndFree ==
    op.name = "freeLease" =>
        \/ op.ret = None
        \/ op.ret \in Offsets /\ op.ret \notin DOMAIN leases

\* C1 witness: freeLease returned an offset from a table that holds leases.
C1_Witness ==
    /\ op.name = "freeLease"
    /\ op.ret \in Offsets
    /\ DOMAIN leases # {}

\* C2: freeLease returns the none sentinel exactly when every offset in
\* [0, leaseRange) is assigned, whatever the random start point was.
C2_NoneIffFull ==
    op.name = "freeLease" =>
        (op.ret = None <=> \A k \in Offsets : k \in DOMAIN leases)

\* C2 witness (scenario A): pool 10.0.0.1 of size 3, three distinct clients
\* hold the three offsets and the next freeLease returned none.
C2_Witness ==
    /\ start = <<10, 0, 0, 1>>
    /\ leaseRange = 3
    /\ DOMAIN leases = 0..2
    /\ Cardinality(Clients(leases)) = 3
    /\ op.name = "freeLease"
    /\ op.ret = None

\* C4: addLease on an offset that is already a key of the table leaves the
\* table as it was, for the same client and for a different one.
C4_BindOnBoundOffsetKeepsTable ==
    (op.name = "addLease" /\ OpOffset \in DOMAIN op.pre) => leases = op.pre

\* C4 witness: addLease was called by a client for an offset another client holds.
C4_Witness ==
    /\ op.name = "addLease"
    /\ OpOffset \in DOMAIN op.pre
    /\ op.pre[OpOffset].nic # MacString(op.mac)

\* C5 (as claimed): releaseLease(mac) removes exactly the binding addLease
\* created for mac: whichever offset mac held before, the table afterwards is
\* the table before without that offset.
C5_ReleaseRemovesThatBinding ==
    op.name = "releaseLease" =>
        \A k \in DOMAIN op.pre :
            op.pre[k].nic = MacString(op.mac) => leases = MapDelete(op.pre, k)

\* C6: every key of the lease table lies in [0, leaseRange), the table holds
\* at most leaseRange entries, and addLease for an address outside the pool
\* leaves the table as it was.
C6_KeysInRange ==
    /\ DOMAIN leases \subseteq Offsets
    /\ Cardinality(DOMAIN leases) <= leaseRange
    /\ (op.name = "addLease" /\ OpOffset \notin Offsets) => leases = op.pre

\* C6 witness: addLease was called for an address outside the pool while the
\* table held leases.
C6_Witness ==
    /\ op.name = "addLease"
    /\ OpOffset \notin Offsets
    /\ DOMAIN leases # {}

----------------------------------------------------------------------------
(* Spec: packets handled by the worker pool *)

\* hardware addresses of the clients that send packets
ClientMACs == {<<2, 0, 0, 0, 171, 1>>, <<2, 0, 0, 0, 171, 2>>}

\* a hardware address whose OUI is on the ignore list
IgnoredMACs == {<<222, 173, 190, 0, 0, 1>>}

\* relay addresses: none, and one that is on the ignore list
GIAddrs == {<<0, 0, 0, 0>>, <<10, 255, 0, 1>>}

IgnoredGIs == {<<10, 255, 0, 1>>}

MsgTypes == {"DHCPDISCOVER", "DHCPRELEASE"}

\* the packets received: every client sends either type from no relay; one
\* packet comes from an ignored OUI and one of either type from an ignored relay
Packets ==
    [mac : ClientMACs, type : MsgTypes, gi : GIAddrs \ IgnoredGIs]
        \cup [mac : IgnoredMACs, type : {"DHCPDISCOVER"}, gi : GIAddrs \ IgnoredGIs]
        \cup [mac : {<<2, 0, 0, 0, 171, 1>>}, type : MsgTypes, gi : IgnoredGIs]

\* conf.ShouldIgnoreOUI(mac.String())
ShouldIgnoreOUI(macString) == macString \in {MacString(m) : m \in IgnoredMACs}

\* conf.ShouldIgnoreGI(gi.String())
ShouldIgnoreGI(gi) == gi \in IgnoredGIs

\* the handler of packet h occupies a worker of the pool
RunningPcs ==
    {"release", "resolve", "freeLease", "createHW", "addLease", "getTemplate",
     "createWorkflow"}

\* the handler of packet h is about to read the lease map
MapReadPcs == {"freeLease"}

\* the handler of packet h is about to write the lease map
MapWritePcs == {"addLease", "release"}

Busy == {h \in Handlers : pc[h] \in RunningPcs}

Log(h, events) == trace' = [trace EXCEPT ![h] = @ \o events]

Goto(h, label) == pc' = [pc EXCEPT ![h] = label]

\* metrics.JobsInProgress.With(labels).Dec(); timer.ObserveDuration()
Closed(m) == [m EXCEPT !.inProgress = @ - 1, !.observed = @ + 1]

InitHandlers ==
    /\ start = <<10, 0, 0, 254>>
    /\ leaseRange \in 1..MaxPool
    /\ leases = EmptyTable
    /\ op = NoOp
    /\ enableDefault \in BOOLEAN
    /\ HandlersIdle
    /\ FetchIdle
    /\ SupervisorServing
    /\ PureIdle

\* dhcpHandler.ServeDHCP: the packet is handed to the pool, in arrival order
ServeDHCP(h) ==
    /\ ~fatal
    /\ pc[h] = "idle"
    /\ \A g \in Handlers : g < h => pc[g] # "idle"
    /\ \E p \in Packets : pkt' = [pkt EXCEPT ![h] = p]
    /\ Goto(h, "queued")
    /\ UNCHANGED <<serverVars, offHandler, enableDefault, free, trace, metrics, fatal>>

\* Filter that tests the relay address before the message type
FilterRelayFirst(h) ==
    /\ ~fatal
    /\ pc[h] = "queued"
    /\ \A g \in Handlers : g < h => pc[g] \notin {"idle", "queued"}
    /\ Cardinality(Busy) < PoolSize
    /\ IF ShouldIgnoreOUI(MacString(pkt[h].mac)) \/ ShouldIgnoreGI(pkt[h].gi)
       THEN Goto(h, "done") /\ UNCHANGED <<trace, metrics>>
       ELSE IF pkt[h].type = "DHCPRELEASE"
       THEN Goto(h, "release") /\ UNCHANGED <<trace, metrics>>
       ELSE /\ metrics' = [metrics EXCEPT !.recv = @ + 1, !.jobsTotal = @ + 1,
                                          !.inProgress = @ + 1]
            /\ Log(h, <<"inc">>)
            /\ Goto(h, "resolve")
    /\ UNCHANGED <<serverVars, offHandler, enableDefault, pkt, free, fatal>>

\* serveDHCP, lines 103-131: a worker takes the packet, filters it and counts it.
\* getCircuitID only decides which line is logged; the handler goes on either way.
Filter(h) ==
    /\ ~fatal
    /\ pc[h] = "queued"
    /\ \A g \in Handlers : g < h => pc[g] \notin {"idle", "queued"}
    /\ Cardinality(Busy) < PoolSize
    /\ IF ShouldIgnoreOUI(MacString(pkt[h].mac))
       THEN Goto(h, "done") /\ UNCHANGED <<trace, metrics>>
       ELSE IF pkt[h].type = "DHCPRELEASE"
       THEN Goto(h, "release") /\ UNCHANGED <<trace, metrics>>
       ELSE IF ShouldIgnoreGI(pkt[h].gi)
       THEN Goto(h, "done") /\ UNCHANGED <<trace, metrics>>
       ELSE /\ metrics' = [metrics EXCEPT !.recv = @ + 1, !.jobsTotal = @ + 1,
                                          !.inProgress = @ + 1]
            /\ Log(h, <<"inc">>)
            /\ Goto(h, "resolve")
    /\ UNCHANGED <<serverVars, offHandler, enableDefault, pkt, free, fatal>>

\* serveDHCP, lines 109-112: server.releaseLease(mac)
Release(h) ==
    /\ ~fatal
    /\ pc[h] = "release"
    /\ leases' \in releaseLease(leases, pkt[h].mac)
    /\ Log(h, <<"releaseLease">>)
    /\ Goto(h, "done")
    /\ UNCHANGED <<start, leaseRange, offHandler, enableDefault, pkt, free, metrics, fatal>>

\* Resolve that goes on to provision whatever ENABLE_DEFAULT_WORKFLOWS says
ResolveIgnoringFlag(h) ==
    /\ ~fatal
    /\ pc[h] = "resolve"
    /\ \E known \in BOOLEAN :
           IF known
           THEN /\ Log(h, <<"CreateFromDHCP", "go">>)
                /\ Goto(h, "respond")
                /\ UNCHANGED metrics
           ELSE /\ metrics' = Closed(metrics)
                /\ Log(h, <<"CreateFromDHCP:err", "dec">>)
                /\ Goto(h, "freeLease")
    /\ UNCHANGED <<serverVars, offHandler, enableDefault, pkt, free, fatal>>

\* serveDHCP, lines 133-147 and 190: job.CreateFromDHCP; a known client goes to
\* the response goroutine, an unknown one is provisioned only if the flag is set
Resolve(h) ==
    /\ ~fatal
    /\ pc[h] = "resolve"
    /\ \E known \in BOOLEAN :
           IF known
           THEN /\ Log(h, <<"CreateFromDHCP", "go">>)
                /\ Goto(h, "respond")
                /\ UNCHANGED metrics
           ELSE /\ metrics' = Closed(metrics)
                /\ Log(h, <<"CreateFromDHCP:err", "dec">>)
                /\ Goto(h, IF enableDefault THEN "freeLease" ELSE "done")
    /\ UNCHANGED <<serverVars, offHandler, enableDefault, pkt, free, fatal>>

\* FreeLease that goes on to create the hardware when no offset is free
FreeLeaseUnchecked(h) ==
    /\ ~fatal
    /\ pc[h] = "freeLease"
    /\ \E b \in 0..(leaseRange - 1) :
           LET f == freeLease(leases, leaseRange, b)
           IN  /\ free' = [free EXCEPT ![h] = f]
               /\ Log(h, IF f = None THEN <<"freeLease:none">> ELSE <<"freeLease">>)
               /\ Goto(h, "createHW")
    /\ UNCHANGED <<serverVars, offHandler, enableDefault, pkt, metrics, fatal>>

\* serveDHCP, lines 149-157: free = server.freeLease()
FreeLease(h) ==
    /\ ~fatal
    /\ pc[h] = "freeLease"
    /\ \E b \in 0..(leaseRange - 1) :
           LET f == freeLease(leases, leaseRange, b)
           IN  IF f = None
               THEN /\ metrics' = Closed(metrics)
                    /\ Log(h, <<"freeLease:none", "dec">>)
                    /\ Goto(h, "done")
                    /\ UNCHANGED free
               ELSE /\ free' = [free EXCEPT ![h] = f]
                    /\ Log(h, <<"freeLease">>)
                    /\ Goto(h, "createHW")
                    /\ UNCHANGED metrics
    /\ UNCHANGED <<serverVars, offHandler, enableDefault, pkt, fatal>>

\* CreateHW that binds the lease whether or not the creation succeeded
CreateHWUnchecked(h) ==
    /\ ~fatal
    /\ pc[h] = "createHW"
    /\ \E ok \in BOOLEAN :
           /\ Log(h, IF ok THEN <<"CreateHWFromDHCP">> ELSE <<"CreateHWFromDHCP:err">>)
           /\ Goto(h, "addLease")
    /\ UNCHANGED <<serverVars, offHandler, enableDefault, pkt, free, metrics, fatal>>

\* serveDHCP, lines 160-166: job.CreateHWFromDHCP with IPAdd(server.start, free)
CreateHW(h) ==
    /\ ~fatal
    /\ pc[h] = "createHW"
    /\ \E ok \in BOOLEAN :
           IF ok
           THEN /\ Log(h, <<"CreateHWFromDHCP">>)
                /\ Goto(h, "addLease")
                /\ UNCHANGED <<free, metrics>>
           ELSE /\ metrics' = Closed(metrics)
                /\ Log(h, <<"CreateHWFromDHCP:err", "dec">>)
                /\ Goto(h, "done")
                /\ free' = [free EXCEPT ![h] = None]
    /\ UNCHANGED <<serverVars, offHandler, enableDefault, pkt, fatal>>

\* serveDHCP, lines 167-168: server.addLease(mac, IPaddr)
AddLease(h) ==
    /\ ~fatal
    /\ pc[h] = "addLease"
    /\ leases' = addLease(leases, start, leaseRange, pkt[h].mac, IPAdd(start, free[h]))
    /\ Log(h, <<"addLease">>)
    /\ Goto(h, "getTemplate")
    /\ UNCHANGED <<start, leaseRange, offHandler, enableDefault, pkt, free, metrics, fatal>>

\* serveDHCP, lines 171-177: job.GetTemplate("default")
GetTemplate(h) ==
    /\ ~fatal
    /\ pc[h] = "getTemplate"
    /\ \E ok \in BOOLEAN :
           IF ok
           THEN /\ Log(h, <<"GetTemplate">>)
                /\ Goto(h, "createWorkflow")
                /\ UNCHANGED <<free, metrics>>
           ELSE /\ metrics' = Closed(metrics)
                /\ Log(h, <<"GetTemplate:err", "dec">>)
                /\ Goto(h, "done")
                /\ free' = [free EXCEPT ![h] = None]
    /\ UNCHANGED <<serverVars, offHandler, enableDefault, pkt, fatal>>

\* serveDHCP, lines 180-190: job.CreateWorkflow(tid, mac), then the go statement
CreateWorkflow(h) ==
    /\ ~fatal
    /\ pc[h] = "createWorkflow"
    /\ \E ok \in BOOLEAN :
           IF ok
           THEN /\ Log(h, <<"CreateWorkflow", "go">>)
                /\ Goto(h, "respond")
                /\ UNCHANGED metrics
           ELSE /\ metrics' = Closed(metrics)
                /\ Log(h, <<"CreateWorkflow:err", "dec">>)
                /\ Goto(h, "done")
    /\ free' = [free EXCEPT ![h] = None]
    /\ UNCHANGED <<serverVars, offHandler, enableDefault, pkt, fatal>>

\* Respond that closes the metrics before the responder has run
RespondClosingFirst(h) ==
    /\ ~fatal
    /\ pc[h] = "respond"
    /\ \E sent \in BOOLEAN :
           metrics' = [Closed(metrics) EXCEPT !.send = IF sent THEN @ + 1 ELSE @]
    /\ Log(h, <<"dec", "ServeDHCP">>)
    /\ Goto(h, "done")
    /\ UNCHANGED <<serverVars, offHandler, enableDefault, pkt, free, fatal>>

\* the response goroutine, lines 191-193: j.ServeDHCP(w, req)
Respond(h) ==
    /\ ~fatal
    /\ pc[h] = "respond"
    /\ \E sent \in BOOLEAN :
           metrics' = [metrics EXCEPT !.send = IF sent THEN @ + 1 ELSE @]
    /\ Log(h, <<"ServeDHCP">>)
    /\ Goto(h, "observe")
    /\ UNCHANGED <<serverVars, offHandler, enableDefault, pkt, free, fatal>>

\* the response goroutine, lines 194-195
Observe(h) ==
    /\ ~fatal
    /\ pc[h] = "observe"
    /\ metrics' = Closed(metrics)
    /\ Log(h, <<"dec">>)
    /\ Goto(h, "done")
    /\ UNCHANGED <<serverVars, offHandler, enableDefault, pkt, free, fatal>>

\* server.leases is a plain map shared by the workers with no lock: when one
\* handler writes it while another reads or writes it, the Go runtime may throw
\* "concurrent map writes" / "concurrent map read and map write" and the
\* process dies; otherwise the accesses take effect one after the other.
MapRaceFatal ==
    /\ ~fatal
    /\ \E h \in Handlers, g \in Handlers :
           /\ h # g
           /\ pc[h] \in MapWritePcs
           /\ pc[g] \in MapWritePcs \cup MapReadPcs
    /\ fatal' = TRUE
    /\ UNCHANGED <<serverVars, offHandler, enableDefault, pc, pkt, free, trace, metrics>>

Next ==
    \/ \E h \in Handlers : ServeDHCP(h)
    \/ \E h \in Handlers : Filter(h)
    \/ \E h \in Handlers : Release(h)
    \/ \E h \in Handlers : Resolve(h)
    \/ \E h \in Handlers : FreeLease(h)
    \/ \E h \in Handlers : CreateHW(h)
    \/ \E h \in Handlers : AddLease(h)
    \/ \E h \in Handlers : GetTemplate(h)
    \/ \E h \in Handlers : CreateWorkflow(h)
    \/ \E h \in Handlers : Respond(h)
    \/ \E h \in Handlers : Observe(h)
    \/ MapRaceFatal

Spec == InitHandlers /\ [][Next]_vars

----------------------------------------------------------------------------
(* SpecFetch: concurrent callers of the wrappers of src/job/fetch.go *)

\* addresses looked up through discoverHardwareFromIP
FetchIPs == {<<10, 0, 0, 254>>, <<10, 0, 1, 0>>}

\* net.IP.String(): dotted decimal
IPString(ip) ==
    ToString(ip[1]) \o "." \o ToString(ip[2]) \o "." \o ToString(ip[3]) \o "." \o
    ToString(ip[4])

\* the calls of the group that have completed with this key
Completed(key) == {f \in DOMAIN flights : flights[f].key = key /\ flights[f].done}

\* what a wrapper returns for the outcome of call f: (nil, err) or (value, nil)
Ret(f, err) == IF err THEN [val |-> 0, err |-> f] ELSE [val |-> f, err |-> 0]

\* caller c is the next to call a wrapper: callers are numbered in call order
NextCaller(c) == cpc[c] = "idle" /\ \A d \in Callers : d < c => cpc[d] # "idle"

\* servers.Do(key, fn), up to the point where fn runs or the caller waits: a
\* caller that finds a call in flight for the key waits for it, any other
\* caller registers a new call and runs fn itself
Do(c, key, fn) ==
    /\ NextCaller(c)
    /\ ccall' = [ccall EXCEPT ![c] = [fn |-> fn, key |-> key, live |-> key \in DOMAIN sf,
                                      stale |-> Completed(key)]]
    /\ IF key \in DOMAIN sf
       THEN /\ cflight' = [cflight EXCEPT ![c] = sf[key]]
            /\ cpc' = [cpc EXCEPT ![c] = "waiting"]
            /\ UNCHANGED <<sf, flights>>
       ELSE /\ flights' = Append(flights, [key |-> key, fn |-> fn, by |-> c,
                                           done |-> FALSE, err |-> FALSE])
            /\ sf' = [k \in DOMAIN sf \cup {key} |->
                          IF k = key THEN Len(flights) + 1 ELSE sf[k]]
            /\ cflight' = [cflight EXCEPT ![c] = Len(flights) + 1]
            /\ cpc' = [cpc EXCEPT ![c] = "calling"]
    /\ UNCHANGED cret

\* servers.Do(key, fn) when fn has returned: the call is complete and its key
\* leaves the group
Done(c, err) ==
    /\ flights' = [flights EXCEPT ![cflight[c]].done = TRUE, ![cflight[c]].err = err]
    /\ sf' = [k \in DOMAIN sf \ {ccall[c].key} |-> sf[k]]

\* a wrapper that calls the inventory client without going through the group
Direct(c, key, fn) ==
    /\ NextCaller(c)
    /\ ccall' = [ccall EXCEPT ![c] = [fn |-> fn, key |-> key, live |-> key \in DOMAIN sf,
                                      stale |-> Completed(key)]]
    /\ flights' = Append(flights, [key |-> key, fn |-> fn, by |-> c,
                                   done |-> FALSE, err |-> FALSE])
    /\ cflight' = [cflight EXCEPT ![c] = Len(flights) + 1]
    /\ cpc' = [cpc EXCEPT ![c] = "calling"]
    /\ UNCHANGED <<sf, cret>>

\* a wrapper that hands out the result of an earlier call with the same key
Cached(c, key, fn) ==
    IF Completed(key) = {}
    THEN Do(c, key, fn)
    ELSE /\ NextCaller(c)
         /\ \E f \in Completed(key) :
                /\ cflight' = [cflight EXCEPT ![c] = f]
                /\ cret' = [cret EXCEPT ![c] = Ret(f, flights[f].err)]
         /\ ccall' = [ccall EXCEPT ![c] = [fn |-> fn, key |-> key,
                                           live |-> key \in DOMAIN sf,
                                           stale |-> Completed(key)]]
         /\ cpc' = [cpc EXCEPT ![c] = "returned"]
         /\ UNCHANGED <<sf, flights>>

discoverHardwareFromDHCPDirect(c) ==
    /\ \E mac \in ClientMACs : Direct(c, MacString(mac), "DiscoverHardwareFromDHCP")
    /\ UNCHANGED offFetch

discoverHardwareFromDHCPCached(c) ==
    /\ \E mac \in ClientMACs : Cached(c, MacString(mac), "DiscoverHardwareFromDHCP")
    /\ UNCHANGED offFetch

\* discoverHardwareFromDHCP, lines 15-18
discoverHardwareFromDHCP(c) ==
    /\ \E mac \in ClientMACs : Do(c, MacString(mac), "DiscoverHardwareFromDHCP")
    /\ UNCHANGED offFetch

\* createHardwareFromDHCP, lines 26-29
createHardwareFromDHCP(c) ==
    /\ \E mac \in ClientMACs : Do(c, MacString(mac), "CreateHardwareFromDHCP")
    /\ UNCHANGED offFetch

\* discoverHardwareFromIP, lines 37-40
discoverHardwareFromIP(c) ==
    /\ \E ip \in FetchIPs : Do(c, IPString(ip), "DiscoverHardwareFromIP")
    /\ UNCHANGED offFetch

\* the inventory client returns to the caller that runs fn, and the wrapper
\* returns what Do returns (lines 19-22, 30-33, 41-44)
ClientReturn(c) ==
    /\ cpc[c] = "calling"
    /\ \E err \in BOOLEAN :
           /\ Done(c, err)
           /\ cret' = [cret EXCEPT ![c] = Ret(cflight[c], err)]
    /\ cpc' = [cpc EXCEPT ![c] = "returned"]
    /\ UNCHANGED <<ccall, cflight, offFetch>>

\* a caller that waited gets the outcome of the call it waited for, and the
\* wrapper returns it (lines 19-22, 30-33, 41-44)
WaiterReturn(c) ==
    /\ cpc[c] = "waiting"
    /\ flights[cflight[c]].done
    /\ cret' = [cret EXCEPT ![c] = Ret(cflight[c], flights[cflight[c]].err)]
    /\ cpc' = [cpc EXCEPT ![c] = "returned"]
    /\ UNCHANGED <<sf, flights, ccall, cflight, offFetch>>

InitFetch ==
    /\ start = <<10, 0, 0, 254>>
    /\ leaseRange = 1
    /\ leases = EmptyTable
    /\ op = NoOp
    /\ enableDefault = FALSE
    /\ HandlersIdle
    /\ FetchIdle
    /\ SupervisorServing
    /\ PureIdle

NextFetch ==
    \/ \E c \in Callers : discoverHardwareFromDHCP(c)
    \/ \E c \in Callers : createHardwareFromDHCP(c)
    \/ \E c \in Callers : discoverHardwareFromIP(c)
    \/ \E c \in Callers : ClientReturn(c)
    \/ \E c \in Callers : WaiterReturn(c)

SpecFetch == InitFetch /\ [][NextFetch]_vars

----------------------------------------------------------------------------
(* Properties of the fetch wrappers *)

\* callers that have entered a wrapper
Entered == {c \in Callers : cpc[c] # "idle"}

\* C7: at most one call per key is in flight; a caller that entered while a
\* call with its key was in flight did not start another one but is attached to
\* that call, and every caller that has returned holds the outcome (value or
\* error) of the one call it is attached to.
C7_OneCallPerKeyInFlight ==
    /\ \A f \in DOMAIN flights, g \in DOMAIN flights :
           (f # g /\ flights[f].key = flights[g].key) =>
               flights[f].done \/ flights[g].done
    /\ \A c \in Entered :
           /\ flights[cflight[c]].key = ccall[c].key
           /\ ccall[c].live => flights[cflight[c]].by # c
           /\ cpc[c] = "returned" =>
                  cret[c] = Ret(cflight[c], flights[cflight[c]].err)

\* C7 witness: two callers with the same key, the second entered while the
\* first one's call was in flight, and both have returned the same outcome of
\* the one call made.
C7_Witness ==
    \E c \in Callers, d \in Callers :
        /\ c # d
        /\ cpc[c] = "returned"
        /\ cpc[d] = "returned"
        /\ ccall[c].fn = "DiscoverHardwareFromDHCP"
        /\ ccall[d].fn = "DiscoverHardwareFromDHCP"
        /\ ccall[d].live
        /\ cflight[c] = cflight[d]
        /\ cret[c] = cret[d]
        /\ Cardinality({f \in DOMAIN flights : flights[f].key = ccall[c].key}) = 1

\* C8: a key is in the group only while its call is in flight; a caller that
\* enters a wrapper when no call with its key is in flight starts a call of its
\* own, and no caller is attached to, or returns the outcome of, a call that had
\* completed before it entered.
C8_NoResultReuse ==
    /\ \A k \in DOMAIN sf : ~flights[sf[k]].done
    /\ \A c \in Entered :
           /\ ~ccall[c].live => flights[cflight[c]].by = c
           /\ cflight[c] \notin ccall[c].stale
           /\ cpc[c] = "returned" =>
                  cret[c].val \notin ccall[c].stale /\ cret[c].err \notin ccall[c].stale

\* C8 witness: a caller entered after a call with its key had completed with
\* an error, made a call of its own and returned that call's value.
C8_Witness ==
    \E c \in Callers :
        /\ cpc[c] = "returned"
        /\ \E f \in ccall[c].stale : flights[f].err
        /\ flights[cflight[c]].by = c
        /\ cret[c].val = cflight[c]
        /\ sf = [k \in {} |-> 0]

----------------------------------------------------------------------------
(* Properties of the handler *)

Events(h) == {trace[h][i] : i \in DOMAIN trace[h]}

\* what a handler logs up to the point where it finds the client unknown
UnknownTrace == <<"inc", "CreateFromDHCP:err", "dec">>

\* what a handler logs when it provisions an unknown client with every call succeeding
ProvisionTrace ==
    UnknownTrace \o
        <<"freeLease", "CreateHWFromDHCP", "addLease", "GetTemplate", "CreateWorkflow", "go">>

\* C3 (as claimed): two handlers serving different clients never both hold the
\* same offset from freeLease with the hardware record for its address created
\* (both are past job.CreateHWFromDHCP, about to call addLease).
C3_NoSharedOffset ==
    \A h \in Handlers, g \in Handlers :
        (/\ h # g
         /\ pc[h] = "addLease"
         /\ pc[g] = "addLease"
         /\ pkt[h].mac # pkt[g].mac) => free[h] # free[g]

\* C9: with ENABLE_DEFAULT_WORKFLOWS unset, a handler that finds its client
\* unknown stops there: it has logged the discovery and the metric updates and
\* nothing else, and the lease table stays empty.
C9_NoProvisioningWhenDisabled ==
    ~enableDefault =>
        /\ leases = EmptyTable
        /\ \A h \in Handlers :
               "CreateFromDHCP:err" \in Events(h) =>
                   pc[h] = "done" /\ trace[h] = UnknownTrace

\* C9 witness: provisioning is disabled and a handler has returned after
\* finding its client unknown.
C9_Witness ==
    /\ ~enableDefault
    /\ \E h \in Handlers :
           /\ pc[h] = "done"
           /\ pkt[h].type = "DHCPDISCOVER"
           /\ trace[h] = UnknownTrace

\* C10: a handler that created the workflow has made exactly the calls
\* freeLease, CreateHWFromDHCP, addLease, GetTemplate, CreateWorkflow, once each
\* and in that order, before the go statement; addLease always directly
\* follows a successful CreateHWFromDHCP, CreateWorkflow a successful
\* GetTemplate, and the response step the go statement.
C10_ProvisioningOrder ==
    \A h \in Handlers :
        /\ \A i \in DOMAIN trace[h] :
               /\ trace[h][i] = "addLease" =>
                      i > 1 /\ trace[h][i - 1] = "CreateHWFromDHCP"
               /\ trace[h][i] \in {"CreateWorkflow", "CreateWorkflow:err"} =>
                      i > 1 /\ trace[h][i - 1] = "GetTemplate"
               /\ trace[h][i] = "ServeDHCP" => i > 1 /\ trace[h][i - 1] = "go"
        /\ "CreateWorkflow" \in Events(h) =>
               \/ pc[h] = "respond" /\ trace[h] = ProvisionTrace
               \/ pc[h] = "observe" /\ trace[h] = ProvisionTrace \o <<"ServeDHCP">>
               \/ pc[h] = "done" /\ trace[h] = ProvisionTrace \o <<"ServeDHCP", "dec">>

\* C10 witness: a handler provisioned an unknown client, its lease is in the
\* table, and its response goroutine has run.
C10_Witness ==
    \E h \in Handlers :
        /\ enableDefault
        /\ pc[h] = "done"
        /\ trace[h] = ProvisionTrace \o <<"ServeDHCP", "dec">>
        /\ MacString(pkt[h].mac) \in Clients(leases)

----------------------------------------------------------------------------
(* SpecSupervisor: ServeDHCP binds the socket through retry.Do *)

\* the attempts retry.Do makes when it is given no option
Attempts == 10

Failures == {"bind", "serveErr"}

InitSupervisor ==
    /\ spc = "calling"
    /\ attempts = 0
    /\ outcomes = <<>>
    /\ alwaysFails \in BOOLEAN
    /\ start = <<10, 0, 0, 254>>
    /\ leaseRange = 1
    /\ leases = EmptyTable
    /\ op = NoOp
    /\ enableDefault = FALSE
    /\ HandlersIdle
    /\ FetchIdle
    /\ PureIdle

\* ListenAndServe whose first failure ends the process
ListenAndServeNoRetry ==
    /\ spc = "calling"
    /\ attempts' = attempts + 1
    /\ \E ok \in BOOLEAN :
           /\ alwaysFails => ~ok
           /\ outcomes' = Append(outcomes, IF ok THEN "serve" ELSE "bind")
           /\ spc' = IF ok THEN "serving" ELSE "fatal"
    /\ UNCHANGED <<alwaysFails, offSuper>>

\* lines 85-87: retry.Do calls dhcp4.ListenAndServe, which either fails to
\* bind the listen address or serves
ListenAndServe ==
    /\ spc = "calling"
    /\ attempts' = attempts + 1
    /\ \E ok \in BOOLEAN :
           /\ alwaysFails => ~ok
           /\ outcomes' = Append(outcomes, IF ok THEN "serve" ELSE "bind")
           /\ spc' = IF ok THEN "serving" ELSE "failed"
    /\ UNCHANGED <<alwaysFails, offSuper>>

\* lines 85-87: dhcp4.ListenAndServe returns an error after it has served
ServeFails ==
    /\ spc = "serving"
    /\ outcomes' = [outcomes EXCEPT ![Len(outcomes)] = "serveErr"]
    /\ spc' = "failed"
    /\ UNCHANGED <<attempts, alwaysFails, offSuper>>

\* retry.Do waits and calls again while attempts remain
Backoff ==
    /\ spc = "failed"
    /\ attempts < Attempts
    /\ spc' = "calling"
    /\ UNCHANGED <<attempts, outcomes, alwaysFails, offSuper>>

\* ServeDHCP that returns when retry.Do gives up
GiveUpIgnored ==
    /\ spc = "failed"
    /\ attempts >= Attempts
    /\ spc' = "returned"
    /\ UNCHANGED <<attempts, outcomes, alwaysFails, offSuper>>

\* lines 84-91: retry.Do returns the error of the last attempt and ServeDHCP
\* calls mainlog.Fatal
GiveUp ==
    /\ spc = "failed"
    /\ attempts >= Attempts
    /\ spc' = "fatal"
    /\ UNCHANGED <<attempts, outcomes, alwaysFails, offSuper>>

NextSupervisor ==
    \/ ListenAndServe
    \/ ServeFails
    \/ Backoff
    \/ GiveUp

SpecSupervisor == InitSupervisor /\ [][NextSupervisor]_vars

\* the goroutine running ServeDHCP keeps running: a call of ListenAndServe
\* returns or serves, a wait ends, and Fatal is reached once retry.Do returns.
\* Nothing obliges a serving socket to fail.
FairSupervisor ==
    /\ SpecSupervisor
    /\ WF_vars(ListenAndServe)
    /\ WF_vars(Backoff)
    /\ WF_vars(GiveUp)

----------------------------------------------------------------------------
(* Properties of the supervisor *)

\* C11: the supervisor reaches the fatal state only after Attempts calls that
\* all failed, and when the first two calls fail and the third one serves it is
\* serving after three attempts.
C11_NoFatalWhileAttemptsRemain ==
    /\ spc = "fatal" =>
           /\ attempts = Attempts
           /\ \A i \in DOMAIN outcomes : outcomes[i] \in Failures
    /\ outcomes = <<"bind", "bind", "serve">> => spc = "serving" /\ attempts = 3

\* C11 witness: two failed calls, then a call that serves.
C11_Witness ==
    /\ outcomes = <<"bind", "bind", "serve">>
    /\ spc = "serving"
    /\ attempts = 3

\* C12: when every call fails, the supervisor eventually reaches the fatal
\* state; it is fatal only after exactly Attempts calls, never makes more than
\* Attempts calls, and never serves.
C12_AlwaysFailingEndsFatal ==
    /\ alwaysFails ~> (spc = "fatal")
    /\ [](spc = "fatal" => attempts = Attempts)
    /\ [](attempts <= Attempts)
    /\ [](alwaysFails => spc \notin {"serving", "returned"})

\* C12 witness: every call failed and the supervisor is fatal after Attempts calls.
C12_Witness ==
    /\ alwaysFails
    /\ spc = "fatal"
    /\ attempts = Attempts
    /\ Len(outcomes) = Attempts

----------------------------------------------------------------------------
(* SpecArith: IPAdd followed by IPRange *)

\* base addresses: inside an octet, and before a carry into the third, second
\* and first octet. Sums stay below 2^31, the largest integer TLC holds.
ArithBases ==
    {<<0, 0, 0, 0>>, <<10, 0, 0, 1>>, <<10, 0, 0, 254>>, <<10, 0, 255, 255>>,
     <<10, 255, 255, 255>>, <<127, 255, 0, 0>>}

InitArith ==
    /\ arith = NoArith
    /\ option = NoOption
    /\ start = <<10, 0, 0, 254>>
    /\ leaseRange = 1
    /\ leases = EmptyTable
    /\ op = NoOp
    /\ enableDefault = FALSE
    /\ HandlersIdle
    /\ FetchIdle
    /\ SupervisorServing

\* IPAdd(base, n)
ArithAdd ==
    /\ arith.fn = "none"
    /\ \E base \in ArithBases, n \in 0..MaxOffset :
           arith' = [fn |-> "IPAdd", base |-> base, n |-> n, sum |-> IPAdd(base, n),
                     count |-> 0]
    /\ UNCHANGED <<option, offPure>>

\* IPRange(base, sum) for the sum IPAdd returned
ArithRange ==
    /\ arith.fn = "IPAdd"
    /\ arith' = [arith EXCEPT !.fn = "IPRange", !.count = IPRange(arith.base, arith.sum)]
    /\ UNCHANGED <<option, offPure>>

NextArith ==
    \/ ArithAdd
    \/ ArithRange

SpecArith == InitArith /\ [][NextArith]_vars

\* C13: IPRange(a, IPAdd(a, n)) - 1 = n for every base a and offset n >= 0
\* whose sum stays in range, also when the sum carries into a higher octet.
C13_RangeOfAddIsOffset ==
    arith.fn = "IPRange" => arith.count - 1 = arith.n

\* C13 witness: the round trip was computed for a sum that carries through
\* three octets.
C13_Witness ==
    /\ arith.fn = "IPRange"
    /\ arith.base = <<10, 255, 255, 255>>
    /\ arith.n = 1
    /\ arith.sum = <<11, 0, 0, 0>>
    /\ arith.count = 2

----------------------------------------------------------------------------
(* SpecOption: getCircuitID on a relay-agent-information option *)

\* byte values of the option: small lengths and the largest byte
OptByteValues == (0..(MaxOptLen + 1)) \cup {255}

OptBytes == UNION {[1..n -> OptByteValues] : n \in 0..MaxOptLen}

\* getCircuitID, lines 203-211, for the bytes GetOption returned. Indexing
\* eightytwo[1] needs two bytes and the slice eightytwo[2:eightytwo[1]] needs
\* eightytwo[1] >= 2; otherwise the Go runtime panics.
getCircuitID(present, bytes) ==
    IF ~present THEN [result |-> "ok", circuitID |-> <<>>]
    ELSE IF Len(bytes) < 2 THEN [result |-> "panic", circuitID |-> <<>>]
    ELSE IF bytes[2] < Len(bytes)
         THEN IF bytes[2] < 2
              THEN [result |-> "panic", circuitID |-> <<>>]
              ELSE [result |-> "ok", circuitID |-> SubSeq(bytes, 3, bytes[2])]
         ELSE [result |-> "error", circuitID |-> <<>>]

InitOption ==
    /\ arith = NoArith
    /\ option = NoOption
    /\ start = <<10, 0, 0, 254>>
    /\ leaseRange = 1
    /\ leases = EmptyTable
    /\ op = NoOp
    /\ enableDefault = FALSE
    /\ HandlersIdle
    /\ FetchIdle
    /\ SupervisorServing

\* a packet without option 82
ParseAbsent ==
    /\ ~option.called
    /\ option' = [called |-> TRUE, present |-> FALSE, bytes |-> <<>>,
                  result |-> getCircuitID(FALSE, <<>>).result,
                  circuitID |-> getCircuitID(FALSE, <<>>).circuitID]
    /\ UNCHANGED <<arith, offPure>>

\* a packet with option 82
ParsePresent ==
    /\ ~option.called
    /\ \E bytes \in OptBytes :
           option' = [called |-> TRUE, present |-> TRUE, bytes |-> bytes,
                      result |-> getCircuitID(TRUE, bytes).result,
                      circuitID |-> getCircuitID(TRUE, bytes).circuitID]
    /\ UNCHANGED <<arith, offPure>>

NextOption ==
    \/ ParseAbsent
    \/ ParsePresent

SpecOption == InitOption /\ [][NextOption]_vars

\* C14 (as claimed): for every byte sequence getCircuitID returns a circuit id
\* or an error and never faults; without the option it returns an empty
\* circuit id and no error.
C14_ParserNeverFaults ==
    option.called =>
        /\ option.result \in {"ok", "error"}
        /\ ~option.present => option.result = "ok" /\ option.circuitID = <<>>

----------------------------------------------------------------------------
(* Properties of the handlers, continued *)

\* packet h is a DHCPRELEASE from a client whose OUI is not ignored
IsRelease(h) ==
    /\ pkt[h] # NoPacket
    /\ pkt[h].type = "DHCPRELEASE"
    /\ ~ShouldIgnoreOUI(MacString(pkt[h].mac))

\* the step in which the handler of packet h calls server.releaseLease
ReleaseStep(h) == pc[h] = "release" /\ pc'[h] = "done"

\* C15: a DHCPRELEASE from a client that is not ignored, whatever its relay
\* address, makes the handler call releaseLease and nothing else: it logs no
\* other call, changes no metric, and the table loses at most one entry, an
\* entry of that client; if the client has no entry the table is unchanged.
C15_ReleaseOnlyReleases ==
    /\ [](\A h \in Handlers :
              IsRelease(h) =>
                  \/ pc[h] \in {"queued", "release"} /\ trace[h] = <<>>
                  \/ pc[h] = "done" /\ trace[h] = <<"releaseLease">>)
    /\ [][\A h \in Handlers :
              ReleaseStep(h) =>
                  /\ metrics' = metrics
                  /\ MacString(pkt[h].mac) \notin Clients(leases) => leases' = leases
                  /\ \E gone \in SUBSET DOMAIN leases :
                         /\ Cardinality(gone) <= 1
                         /\ \A k \in gone : leases[k].nic = MacString(pkt[h].mac)
                         /\ leases' = [k \in DOMAIN leases \ gone |-> leases[k]]]_vars

\* C15 witness: a DHCPRELEASE that came through an ignored relay has been
\* handled by releaseLease alone, and one for a client with a lease removed it.
C15_Witness ==
    /\ \E h \in Handlers :
           /\ IsRelease(h)
           /\ ShouldIgnoreGI(pkt[h].gi)
           /\ pc[h] = "done"
           /\ trace[h] = <<"releaseLease">>
    /\ \E g \in Handlers : "addLease" \in Events(g)
    /\ leases = EmptyTable
    /\ metrics.inProgress = 0

\* the calls the handler of packet h has made, without the metric updates
Calls(h) == SelectSeq(trace[h], LAMBDA e : e \notin {"inc", "dec"})

\* the step in which the handler of packet h returns from server.freeLease or
\* from job.CreateHWFromDHCP
AllocOrCreateStep(h) == pc[h] \in {"freeLease", "createHW"} /\ pc'[h] # pc[h]

\* C16: when freeLease returns -1 the handler has returned having called only
\* job.CreateFromDHCP and freeLease (no CreateHWFromDHCP); when CreateHWFromDHCP
\* fails it has returned having called only those and CreateHWFromDHCP. In both
\* cases no addLease, GetTemplate, CreateWorkflow or response goroutine follows,
\* and the allocation and creation steps leave the lease table as it was.
C16_AllocOrCreateFailureIsTerminal ==
    /\ [](\A h \in Handlers :
              /\ "freeLease:none" \in Events(h) =>
                     /\ pc[h] = "done"
                     /\ Calls(h) = <<"CreateFromDHCP:err", "freeLease:none">>
              /\ "CreateHWFromDHCP:err" \in Events(h) =>
                     /\ pc[h] = "done"
                     /\ Calls(h) = <<"CreateFromDHCP:err", "freeLease", "CreateHWFromDHCP:err">>)
    /\ [][\A h \in Handlers : AllocOrCreateStep(h) => leases' = leases]_vars

\* C16 witness: with the only address of the pool bound to one client, the
\* handler of another packet found no free offset and returned.
C16_Witness ==
    \E h \in Handlers :
        /\ enableDefault
        /\ pc[h] = "done"
        /\ Calls(h) = <<"CreateFromDHCP:err", "freeLease:none">>
        /\ DOMAIN leases = {0}
        /\ leaseRange = 1

\* how many times the handler of packet h and its response goroutine logged e
Count(h, e) == Len(SelectSeq(trace[h], LAMBDA x : x = e))

\* C17 (as claimed): every packet that passes the filter increments
\* JobsInProgress once and decrements it once on whatever path the handler
\* takes, so the gauge is never negative and is back at zero when every
\* handler and response goroutine has finished.
C17_InProgressBalanced ==
    /\ metrics.inProgress >= 0
    /\ \A h \in Handlers :
           /\ Count(h, "dec") <= Count(h, "inc")
           /\ Count(h, "inc") <= 1
           /\ pc[h] = "done" => Count(h, "dec") = Count(h, "inc")
    /\ (\A h \in Handlers : pc[h] \in {"idle", "done"}) => metrics.inProgress = 0

\* what a handler logs for a client that job.CreateFromDHCP finds in inventory
KnownTrace == <<"inc", "CreateFromDHCP", "go">>

\* C18: for a client known to inventory the handler returns at the go
\* statement, leaving its worker, while j.ServeDHCP has not run yet; the
\* decrement of JobsInProgress is logged only after j.ServeDHCP has returned.
C18_ResponseDetached ==
    \A h \in Handlers :
        "CreateFromDHCP" \in Events(h) =>
            \/ pc[h] = "respond" /\ trace[h] = KnownTrace /\ h \notin Busy
            \/ pc[h] = "observe" /\ trace[h] = KnownTrace \o <<"ServeDHCP">>
            \/ pc[h] = "done" /\ trace[h] = KnownTrace \o <<"ServeDHCP", "dec">>

\* C18 witness: the handler of a known client's packet has returned and its
\* responder has not run, the gauge still counts the packet, and the only
\* worker in use is the one running the handler of the next packet.
C18_Witness ==
    \E h \in Handlers, g \in Handlers :
        /\ pc[h] = "respond"
        /\ trace[h] = KnownTrace
        /\ metrics.inProgress >= 1
        /\ Busy = {g}
        /\ pc[g] = "resolve"

----------------------------------------------------------------------------
(* Properties of the fetch wrappers, continued *)

\* C19 (as claimed): a caller of createHardwareFromDHCP is attached to a call
\* of CreateHardwareFromDHCP, never to a DiscoverHardwareFromDHCP call in
\* flight for the same MAC address, so what it returns is the outcome of a
\* creation.
C19_CreateReturnsCreation ==
    \A c \in Entered :
        ccall[c].fn = "CreateHardwareFromDHCP" =>
            flights[cflight[c]].fn = "CreateHardwareFromDHCP"

----------------------------------------------------------------------------
(* Properties of the lease table under the handlers *)

\* C20 (as claimed): whatever packets the handlers have served, no two entries
\* of the lease table belong to the same client, so one releaseLease leaves the
\* client without an entry.
C20_OneLeasePerClient ==
    \A j \in DOMAIN leases, k \in DOMAIN leases :
        leases[j].nic = leases[k].nic => j = k

====
